---- MODULE Spec2Model ----
(***************************************************************************)
(* A model of the Sortly API connector (class SortlyConnector): the        *)
(* endpoint operations, the request executor doFetch and the response      *)
(* classifier handleNotOk, with the connector's rate-limit fields.         *)
(*                                                                         *)
(* Encoding of JavaScript values.  A scalar is the text of its literal:    *)
(* "undefined", "null", "0", "1", "false", "''" (the empty string),        *)
(* "Widget".  An object is a record whose members are scalars; a member    *)
(* that is "undefined" is a member the object does not have.  A value that *)
(* may be an object, null or undefined is a record tagged by t.  A JSON    *)
(* text is the set of its <<key, value>> members.  A string built by       *)
(* concatenation is the tuple of its pieces.                               *)
(***************************************************************************)
EXTENDS Integers, Sequences, FiniteSets, TLC

VARIABLES
    rate_limit_max,        \* this.rate_limit_max
    rate_limit_remaining,  \* this.rate_limit_remaining
    rate_limit_reset,      \* this.rate_limit_reset
    pc,                    \* position of the call in progress
    op,                    \* the endpoint operation called and its arguments
    options,               \* the options object doFetch works on
    sent,                  \* the requests handed to fetch by this call
    response,              \* the response doFetch holds
    fetched,               \* how doFetch settled
    outcome,               \* how the operation settled
    calls,                 \* overlapping doFetch calls, each with its own locals
    received               \* the response fetch delivered last to any of them

vars == <<rate_limit_max, rate_limit_remaining, rate_limit_reset,
          pc, op, options, sent, response, fetched, outcome, calls, received>>

rate_limit == <<rate_limit_max, rate_limit_remaining, rate_limit_reset>>

\* the call a client awaits, and the calls it lets overlap
awaited == <<pc, op, options, sent, response, fetched, outcome>>
overlapping == <<calls, received>>

----------------------------------------------------------------------------
(* Bounds of the model *)

MaxId == 1           \* item and folder ids are 1..MaxId
MaxQuantity == 1     \* quantities are 0..MaxQuantity
MaxHeaderValue == 1  \* a rate-limit header carries 0..MaxHeaderValue
MaxInFlight == 2     \* doFetch calls that may overlap on one connector

----------------------------------------------------------------------------
(* JavaScript values *)

Undefined == "undefined"
Null == "null"
EmptyString == "''"

Falsy == {Undefined, Null, EmptyString, "0", "false"}
Truthy(v) == v \notin Falsy

JUndefined == [t |-> "undefined"]
JNull == [t |-> "null"]
\* !x for a value that is an object, null or undefined
Not(x) == x.t \in {"undefined", "null"}

Members(o) == DOMAIN o \ {"t"}
\* JSON.stringify of an object: members whose value is undefined are dropped
JSONstringify(o) == {<<k, o[k]>> : k \in {m \in Members(o) : o[m] # Undefined}}

Ids == {ToString(n) : n \in 1..MaxId}
Quantities == {ToString(n) : n \in 0..MaxQuantity}
HeaderValues == {ToString(n) : n \in 0..MaxHeaderValue}

----------------------------------------------------------------------------
(* Configuration *)

base_url == "https://api.sortly.co/api/v1"
api_token == "token"

----------------------------------------------------------------------------
(* Errors *)

NoStatus == 0   \* the status of an ApiError built without one

\* an error message: a text (the tuple of its pieces, <<>> when empty), or the
\* JSON.stringify of a decoded body
Text(s) == [kind |-> "text", text |-> s, json |-> [t |-> "undefined"]]
Json(o) == [kind |-> "json", text |-> <<>>, json |-> o]

NoOutcome == [kind |-> "none", value |-> JUndefined, cls |-> "", status |-> NoStatus,
              message |-> Text(<<>>)]
Return(v) == [kind |-> "return", value |-> v, cls |-> "", status |-> NoStatus,
              message |-> Text(<<>>)]
Throw(cls, msg, status) == [kind |-> "throw", value |-> JUndefined, cls |-> cls,
                            status |-> status, message |-> msg]

\* new Error(m).message: String(m), and "" when m is undefined
ErrorMessage(m) == IF m = Undefined THEN Text(<<>>) ELSE Text(<<m>>)

\* an ApiError that does not keep the status it is given
ApiError_NoStatus(msg, status) == Throw("ApiError", msg, NoStatus)
ApiError(msg, status) == Throw("ApiError", msg, status)
ApiAuthError(msg, status) == Throw("ApiAuthError", msg, status)
\* ex instanceof ApiError
InstanceOfApiError(o) == o.kind = "throw" /\ o.cls \in {"ApiError", "ApiAuthError"}

----------------------------------------------------------------------------
(* Requests *)

Methods == {"GET", "POST", "PUT", "DELETE"}

\* qs.stringify: the members that have a value, in key order
QueryKeys == <<"include", "page", "per_page">>
qs_stringify(query) ==
    LET ks == SelectSeq(QueryKeys, LAMBDA k : query[k] # Undefined)
    IN  [i \in 1..Len(ks) |-> <<ks[i], query[ks[i]]>>]

NoQuery == [t |-> "null", include |-> Undefined, page |-> Undefined, per_page |-> Undefined]
Query(include, page, per_page) ==
    [t |-> "object", include |-> include, page |-> page, per_page |-> per_page]

\* qstring of doFetch: '' , or '?' followed by the serialised query
qstring(query) ==
    IF Not(query) THEN [mark |-> "", params |-> <<>>]
    ELSE [mark |-> "?", params |-> qs_stringify(query)]

full_url(url, query) == [url |-> url, qstring |-> qstring(query)]

DefaultHeaders ==
    [h \in {"Content-Type", "User-Agent", "Authorization"} |->
        CASE h = "Content-Type" -> <<"application/json">>
          [] h = "User-Agent" -> <<"Apigrate Sortly Connector/2.x">>
          [] h = "Authorization" -> <<"Bearer ", api_token>>]

\* Object.assign(target, source)
ObjectAssign(target, source) ==
    [k \in DOMAIN target \cup DOMAIN source |->
        IF k \in DOMAIN source THEN source[k] ELSE target[k]]

NoHeaders == [t |-> "undefined", h |-> <<>>]
Headers(h) == [t |-> "object", h |-> h]

NoOptions == [t |-> "undefined", retries |-> Undefined, headers |-> NoHeaders]
Options(retries, headers) == [t |-> "object", retries |-> retries, headers |-> headers]

\* the options object after the first lines of doFetch
InitOptions(opts) ==
    LET o == IF Not(opts) THEN Options(Undefined, NoHeaders) ELSE opts
    IN  IF ~Truthy(o.retries) THEN [o EXCEPT !.retries = "0"] ELSE o

\* fetchOpts, together with the url it is sent to
fetchOpts(method, url, query, payload, opts) ==
    [method |-> method,
     full_url |-> full_url(url, query),
     headers |-> IF ~Not(opts) /\ ~Not(opts.headers)
                 THEN ObjectAssign(DefaultHeaders, opts.headers.h)
                 ELSE DefaultHeaders,
     hasBody |-> ~Not(payload),
     body |-> IF ~Not(payload) THEN JSONstringify(payload) ELSE {}]

NoPayload == [t |-> "undefined"]

----------------------------------------------------------------------------
(* Responses *)

Statuses == {200, 201, 204, 302, 400, 401, 403, 404, 429, 500}

HeaderNames == {"Sortly-Rate-Limit-Max", "Sortly-Rate-Limit-Remaining",
                "Sortly-Rate-Limit-Reset"}
HeaderSets == UNION {[S -> HeaderValues] : S \in SUBSET HeaderNames}

\* a header lookup that falls back on the value recorded before
HeadersGet_Fallback(headers, name) ==
    IF name \in DOMAIN headers THEN headers[name]
    ELSE CASE name = "Sortly-Rate-Limit-Max" -> rate_limit_max
           [] name = "Sortly-Rate-Limit-Remaining" -> rate_limit_remaining
           [] OTHER -> rate_limit_reset

\* response.headers.get(name)
HeadersGet(headers, name) == IF name \in DOMAIN headers THEN headers[name] ELSE Null

DataItem == [t |-> "object", id |-> "42", name |-> "Widget"]
Body(data, message) == [t |-> "object", data |-> data, message |-> message]
BodyText == [t |-> "text", data |-> JUndefined, message |-> Undefined]
BodyNull == [t |-> "null", data |-> JUndefined, message |-> Undefined]
EmptyObject == Body(JUndefined, Undefined)

Bodies == {BodyText, BodyNull, Body(JUndefined, "Too many requests")}
          \cup {Body(d, Undefined) : d \in {JUndefined, JNull, DataItem}}

\* the body of a response whose body has not been read
BodyUnread == [t |-> "unread", data |-> JUndefined, message |-> Undefined]

\* a response as fetch delivers it: the status line and the headers
Responses == [status : Statuses, headers : HeaderSets, body : {BodyUnread}]
NoResponse == [status |-> 0, headers |-> <<>>, body |-> BodyUnread]

\* response.ok
Ok(r) == r.status >= 200 /\ r.status < 300

\* how response.json() settles
ResponseJson(r) ==
    IF r.body.t = "text"
    THEN Throw("FetchError", Text(<<"invalid json response body">>), NoStatus)
    ELSE Return(r.body)

----------------------------------------------------------------------------
(* The response classifier *)

handleNotOk(r) ==
    LET parsed == ResponseJson(r)
        result == parsed.value
    IN  IF parsed.kind = "throw" THEN parsed
        ELSE IF r.status >= 300 /\ r.status < 400 THEN Return(result)
        ELSE IF r.status >= 400 /\ r.status < 500 THEN
                 IF r.status = 401 \/ r.status = 403
                 THEN ApiAuthError(Json(result), r.status)
                 ELSE IF Not(result)
                      THEN Throw("TypeError", Text(<<"Cannot read property 'message' of null">>), NoStatus)
                      ELSE ApiError(ErrorMessage(result.message), r.status)
        ELSE IF r.status >= 500 THEN
                 IF Not(result)
                 THEN Throw("TypeError", Text(<<"Cannot read property 'message' of null">>), NoStatus)
                 ELSE ApiError(ErrorMessage(result.message), r.status)
        ELSE Throw("ReferenceError", Text(<<"err is not defined">>), NoStatus)

\* a success branch that does not read the body
Classify_NoBody(r) == IF Ok(r) THEN Return(EmptyObject) ELSE handleNotOk(r)

\* doFetch once the body has been read
Classify(r) == IF Ok(r) THEN ResponseJson(r) ELSE handleNotOk(r)

----------------------------------------------------------------------------
(* Arguments of the endpoint operations *)

NoItem == [t |-> "undefined", name |-> Undefined, id |-> Undefined]
Item(name, id) == [t |-> "object", name |-> name, id |-> id]
Items == {NoItem} \cup {Item(n, i) : n \in {Undefined, EmptyString, "Widget"},
                                     i \in {Undefined} \cup Ids}

NoSearch == [t |-> "undefined", name |-> Undefined]
Searches == {NoSearch, [t |-> "object", name |-> "Widget"]}

Includes == {Undefined, "photos"}
PageSizes == {Undefined, "10"}
Pages == {Undefined, "2"}

Queries == {NoQuery, Query(Undefined, Undefined, Undefined), Query(Undefined, "2", Undefined)}
CustomHeaders == {NoHeaders, Headers([h \in {"X-Trace"} |-> <<"on">>]),
                  Headers([h \in {"Authorization"} |-> <<"Basic ", "secret">>])}
OptionSets == {NoOptions, Options(Undefined, NoHeaders), Options("2", NoHeaders)}
              \cup {Options(Undefined, h) : h \in CustomHeaders \ {NoHeaders}}

----------------------------------------------------------------------------
(* The state after construction, and the steps of a call *)

\* the calls that may be in flight at once, and a call not yet made
Slots == 1..MaxInFlight
IdleCall == [pc |-> "idle", sent |-> <<>>, response |-> NoResponse, fetched |-> NoOutcome]

Init ==
    /\ rate_limit_max = Null
    /\ rate_limit_remaining = Null
    /\ rate_limit_reset = Null
    /\ pc = "idle"
    /\ op = [name |-> "none"]
    /\ options = NoOptions
    /\ sent = <<>>
    /\ response = NoResponse
    /\ fetched = NoOutcome
    /\ outcome = NoOutcome
    /\ calls = [i \in Slots |-> IdleCall]
    /\ received = NoResponse

\* an operation that throws before it calls doFetch
Rejects(o, error) ==
    /\ pc = "idle"
    /\ pc' = "done"
    /\ op' = o
    /\ outcome' = error
    /\ UNCHANGED <<overlapping, rate_limit, options, sent, response, fetched>>

\* doFetch up to its await of fetch(full_url, fetchOpts)
doFetch(o, method, url, query, payload, opts) ==
    /\ pc = "idle"
    /\ pc' = "fetching"
    /\ op' = o
    /\ options' = InitOptions(opts)
    /\ sent' = Append(sent, fetchOpts(method, url, query, payload, opts))
    /\ UNCHANGED <<overlapping, rate_limit, response, fetched, outcome>>

\* operations that hand back whatever doFetch gave
Settle_PassThrough(name, f) == f

\* what the operation does with the way its doFetch settled
Settle(name, f) ==
    CASE name \in {"createItem", "moveItem"} ->
            IF f.kind = "throw" THEN f
            ELSE IF Not(f.value) \/ Not(f.value.data) THEN Return(JNull)
            ELSE Return(f.value.data)
      [] name = "fetchItem" ->
            IF f.kind = "throw"
            THEN IF InstanceOfApiError(f) /\ f.status = 404 THEN Return(JNull) ELSE f
            ELSE IF Not(f.value) \/ Not(f.value.data) THEN Return(JNull)
            ELSE Return(f.value.data)
      [] name \in {"deleteItem", "updateItem"} ->
            IF f.kind = "throw" THEN f ELSE Return(JUndefined)
      [] OTHER -> f

\* fetch resolves with the status and the headers: doFetch records the rate-limit
\* headers, and returns {} on a 204 without reading the body
FetchResolves ==
    /\ pc = "fetching"
    /\ \E r \in Responses :
        /\ response' = r
        /\ rate_limit_max' = HeadersGet(r.headers, "Sortly-Rate-Limit-Max")
        /\ rate_limit_remaining' = HeadersGet(r.headers, "Sortly-Rate-Limit-Remaining")
        /\ rate_limit_reset' = HeadersGet(r.headers, "Sortly-Rate-Limit-Reset")
        /\ IF Ok(r) /\ r.status = 204
           THEN /\ fetched' = Return(EmptyObject)
                /\ outcome' = Settle(op.name, Return(EmptyObject))
                /\ pc' = "done"
           ELSE /\ pc' = "parsing"
                /\ UNCHANGED <<fetched, outcome>>
    /\ UNCHANGED <<overlapping, op, options, sent>>

\* a catch block that sends the request again
FetchRejects_Retries ==
    /\ pc = "fetching"
    /\ Len(sent) < 2
    /\ sent' = Append(sent, sent[1])
    /\ options' = [options EXCEPT !.retries = "1"]
    /\ UNCHANGED <<overlapping, rate_limit, pc, op, response, fetched, outcome>>

\* a catch block that forgets the rate-limit fields
FetchRejects_Clears ==
    /\ pc = "fetching"
    /\ fetched' = Throw("FetchError", Text(<<"request failed">>), NoStatus)
    /\ outcome' = fetched'
    /\ pc' = "done"
    /\ rate_limit_max' = Null
    /\ rate_limit_remaining' = Null
    /\ rate_limit_reset' = Null
    /\ UNCHANGED <<overlapping, op, options, sent, response>>

\* fetch rejects: no response arrives, the catch block rethrows
FetchRejects ==
    /\ pc = "fetching"
    /\ fetched' = Throw("FetchError", Text(<<"request failed">>), NoStatus)
    /\ outcome' = Settle(op.name, fetched')
    /\ pc' = "done"
    /\ UNCHANGED <<overlapping, rate_limit, op, options, sent, response>>

\* response.json() reads the body and settles: doFetch returns the body or raises
JsonSettles ==
    /\ pc = "parsing"
    /\ \E b \in Bodies :
        /\ response' = [response EXCEPT !.body = b]
        /\ fetched' = Classify(response')
        /\ outcome' = Settle(op.name, fetched')
    /\ pc' = "done"
    /\ UNCHANGED <<overlapping, rate_limit, op, options, sent>>

\* the caller takes the result; the connector keeps only its rate-limit fields
Resume ==
    /\ pc = "done"
    /\ pc' = "idle"
    /\ op' = [name |-> "none"]
    /\ options' = NoOptions
    /\ sent' = <<>>
    /\ response' = NoResponse
    /\ fetched' = NoOutcome
    /\ outcome' = NoOutcome
    /\ UNCHANGED <<overlapping, rate_limit>>

----------------------------------------------------------------------------
(* The endpoint operations *)

Call(name, args) == [name |-> name, args |-> args]

createItem(item) ==
    LET o == Call("createItem", [item |-> item])
    IN  IF Not(item)
        THEN Rejects(o, ApiError(Text(<<"Unable to create item. Data is missing.">>), NoStatus))
        ELSE IF ~Truthy(item.name)
        THEN Rejects(o, ApiError(Text(<<"Unable to create item. Missing \"name\" property.">>), NoStatus))
        ELSE doFetch(o, "POST", <<base_url, "/items">>, NoQuery, item, NoOptions)

\* deleteItem without its check of id
deleteItem_NoCheck(id) ==
    doFetch(Call("deleteItem", [id |-> id]), "DELETE", <<base_url, "/items/", id>>,
            NoQuery, NoPayload, NoOptions)

deleteItem(id) ==
    LET o == Call("deleteItem", [id |-> id])
    IN  IF ~Truthy(id)
        THEN Rejects(o, ApiError(Text(<<"Unable to delete item. Missing \"id\" property.">>), NoStatus))
        ELSE doFetch(o, "DELETE", <<base_url, "/items/", id>>, NoQuery, NoPayload, NoOptions)

fetchItem(id, include) ==
    LET o == Call("fetchItem", [id |-> id, include |-> include])
        q == IF Truthy(include) THEN Query(include, Undefined, Undefined) ELSE NoQuery
    IN  IF ~Truthy(id)
        THEN Rejects(o, ApiError(Text(<<"Unable to fetch item. Missing \"id\" property.">>), NoStatus))
        ELSE doFetch(o, "GET", <<base_url, "/items/", id>>, q, NoPayload, NoOptions)

\* moveItem that takes a quantity of 0 for a missing one
moveItem_ZeroIsMissing(item_id, quantity, folder_id, leave_zero_quantity) ==
    LET o == Call("moveItem", [item_id |-> item_id, quantity |-> quantity,
                               folder_id |-> folder_id,
                               leave_zero_quantity |-> leave_zero_quantity])
        payload == [t |-> "object",
                    quantity |-> quantity,
                    folder_id |-> IF Truthy(folder_id) THEN folder_id ELSE Undefined,
                    leave_zero_quantity |->
                        IF leave_zero_quantity # Undefined /\ leave_zero_quantity # Null
                        THEN leave_zero_quantity ELSE Undefined]
    IN  IF ~Truthy(item_id)
        THEN Rejects(o, ApiError(Text(<<"Unable to update item. Data is missing.">>), NoStatus))
        ELSE IF ~Truthy(quantity)
        THEN Rejects(o, ApiError(Text(<<"Unable to move item. Missing \"quantity\" property.">>), NoStatus))
        ELSE doFetch(o, "POST", <<base_url, "/items/", item_id, "/move">>, NoQuery,
                     payload, NoOptions)

moveItem(item_id, quantity, folder_id, leave_zero_quantity) ==
    LET o == Call("moveItem", [item_id |-> item_id, quantity |-> quantity,
                               folder_id |-> folder_id,
                               leave_zero_quantity |-> leave_zero_quantity])
        payload == [t |-> "object",
                    quantity |-> quantity,
                    folder_id |-> IF Truthy(folder_id) THEN folder_id ELSE Undefined,
                    leave_zero_quantity |->
                        IF leave_zero_quantity # Undefined /\ leave_zero_quantity # Null
                        THEN leave_zero_quantity ELSE Undefined]
    IN  IF ~Truthy(item_id)
        THEN Rejects(o, ApiError(Text(<<"Unable to update item. Data is missing.">>), NoStatus))
        ELSE IF quantity = Undefined \/ quantity = Null
        THEN Rejects(o, ApiError(Text(<<"Unable to move item. Missing \"quantity\" property.">>), NoStatus))
        ELSE doFetch(o, "POST", <<base_url, "/items/", item_id, "/move">>, NoQuery,
                     payload, NoOptions)

searchItems(search) ==
    doFetch(Call("searchItems", [search |-> search]), "POST",
            <<base_url, "/items/search">>, NoQuery, search, NoOptions)

updateItem(item) ==
    LET o == Call("updateItem", [item |-> item])
    IN  IF Not(item)
        THEN Rejects(o, ApiError(Text(<<"Unable to update item. Data is missing.">>), NoStatus))
        ELSE IF ~Truthy(item.id)
        THEN Rejects(o, ApiError(Text(<<"Unable to update item. Missing \"id\" property.">>), NoStatus))
        ELSE doFetch(o, "PUT", <<base_url, "/items/", item.id>>, NoQuery, item, NoOptions)

listCustomAttributes(per_page, page) ==
    LET q1 == IF Truthy(per_page) THEN Query(Undefined, Undefined, per_page) ELSE NoQuery
        q == IF Truthy(page) THEN Query(Undefined, page, Undefined) ELSE q1
    IN  doFetch(Call("listCustomAttributes", [per_page |-> per_page, page |-> page]),
                "GET", <<base_url, "/custom_fields">>, q, NoPayload, NoOptions)

----------------------------------------------------------------------------
(* The calls a client makes *)

CreateItem == \E item \in Items : createItem(item)
DeleteItem == \E id \in {Undefined} \cup Ids : deleteItem(id)
FetchItem == \E id \in {Undefined} \cup Ids, include \in Includes : fetchItem(id, include)
MoveItem ==
    \E item_id \in {Undefined} \cup Ids, quantity \in {Undefined, Null} \cup Quantities,
       folder_id \in {Undefined} \cup Ids, leave_zero_quantity \in {Undefined, "false"} :
        moveItem(item_id, quantity, folder_id, leave_zero_quantity)
SearchItems == \E search \in Searches : searchItems(search)
UpdateItem == \E item \in Items : updateItem(item)
ListCustomAttributes ==
    \E per_page \in PageSizes, page \in Pages : listCustomAttributes(per_page, page)
\* doFetch called directly, with a query or with options
DoFetchQuery ==
    \E method \in Methods, query \in Queries :
        doFetch(Call("doFetch", [method |-> method, query |-> query, options |-> NoOptions]),
                method, <<base_url, "/items">>, query, NoPayload, NoOptions)
DoFetchOptions ==
    \E method \in Methods, opts \in OptionSets \ {NoOptions} :
        doFetch(Call("doFetch", [method |-> method, query |-> NoQuery, options |-> opts]),
                method, <<base_url, "/items">>, NoQuery, NoPayload, opts)

Next ==
    \/ CreateItem
    \/ DeleteItem
    \/ FetchItem
    \/ MoveItem
    \/ SearchItems
    \/ UpdateItem
    \/ ListCustomAttributes
    \/ DoFetchQuery
    \/ DoFetchOptions
    \/ FetchResolves
    \/ FetchRejects
    \/ JsonSettles
    \/ Resume

Spec == Init /\ [][Next]_vars

----------------------------------------------------------------------------
(* The connector of src/sortly.js: searchItems over its own doFetch and        *)
(* handleNotOk.  It has no rate-limit fields and no case for a 204.            *)

\* handleNotOk of src/sortly.js
sortly_handleNotOk(r) ==
    LET parsed == ResponseJson(r)
        result == parsed.value
    IN  IF parsed.kind = "throw" THEN parsed
        ELSE IF r.status >= 300 /\ r.status < 400 THEN Return(result)
        ELSE IF r.status >= 400 /\ r.status < 500 THEN
                 IF r.status = 401 \/ r.status = 403
                 THEN Throw("ApiAuthError", Json(result), NoStatus)
                 ELSE Return(result)
        ELSE IF r.status >= 500 THEN Return(result)
        ELSE Throw("ReferenceError", Text(<<"err is not defined">>), NoStatus)

\* doFetch of src/sortly.js once the body has been read
sortly_Classify(r) == IF Ok(r) THEN ResponseJson(r) ELSE sortly_handleNotOk(r)

sortly_searchItems(search) ==
    doFetch(Call("searchItems", [search |-> search]), "POST",
            <<base_url, "/items/search">>, NoQuery, search, NoOptions)

SortlySearchItems == \E search \in Searches : sortly_searchItems(search)

\* fetch resolves with the status and the headers
SortlyFetchResolves ==
    /\ pc = "fetching"
    /\ \E r \in Responses : response' = r
    /\ pc' = "parsing"
    /\ UNCHANGED <<overlapping, rate_limit, op, options, sent, fetched, outcome>>

\* fetch rejects: the catch block logs and rethrows
SortlyFetchRejects ==
    /\ pc = "fetching"
    /\ fetched' = Throw("FetchError", Text(<<"request failed">>), NoStatus)
    /\ outcome' = fetched'
    /\ pc' = "done"
    /\ UNCHANGED <<overlapping, rate_limit, op, options, sent, response>>

\* response.json() reads the body and settles
SortlyJsonSettles ==
    /\ pc = "parsing"
    /\ \E b \in Bodies :
        /\ response' = [response EXCEPT !.body = b]
        /\ fetched' = sortly_Classify(response')
        /\ outcome' = fetched'
    /\ pc' = "done"
    /\ UNCHANGED <<overlapping, rate_limit, op, options, sent>>

SortlyNext ==
    \/ SortlySearchItems
    \/ SortlyFetchResolves
    \/ SortlyFetchRejects
    \/ SortlyJsonSettles

SortlySpec == Init /\ [][SortlyNext]_vars

----------------------------------------------------------------------------
(* Overlapping calls on one connector.  Each call runs doFetch with its own  *)
(* locals; the connector's rate-limit fields are shared.  A call gives up    *)
(* control only at an await, so the code between two awaits is one step.     *)

OverlapStatuses == {200, 204, 500}
OverlapHeaderSets ==
    {h \in HeaderSets :
        /\ DOMAIN h \in {{}, {"Sortly-Rate-Limit-Max"}, HeaderNames}
        /\ \A n, m \in DOMAIN h : h[n] = h[m]}
OverlapResponses ==
    [status : OverlapStatuses, headers : OverlapHeaderSets, body : {BodyUnread}]
OverlapBodies == {BodyText, Body(DataItem, Undefined)}

\* doFetch up to its await of fetch(full_url, fetchOpts), in call i
OverlapDoFetch(i) ==
    /\ calls[i].pc = "idle"
    /\ calls' = [calls EXCEPT ![i] =
                    [pc |-> "fetching",
                     sent |-> <<fetchOpts("GET", <<base_url, "/items">>, NoQuery,
                                          NoPayload, NoOptions)>>,
                     response |-> NoResponse,
                     fetched |-> NoOutcome]]
    /\ UNCHANGED <<awaited, rate_limit, received>>

\* a resumption that records only the headers the response carries
OverlapFetchResolves_Partial(i) ==
    /\ calls[i].pc = "fetching"
    /\ \E r \in OverlapResponses :
        /\ received' = r
        /\ rate_limit_max' = HeadersGet_Fallback(r.headers, "Sortly-Rate-Limit-Max")
        /\ rate_limit_remaining' = HeadersGet_Fallback(r.headers, "Sortly-Rate-Limit-Remaining")
        /\ rate_limit_reset' = HeadersGet_Fallback(r.headers, "Sortly-Rate-Limit-Reset")
        /\ calls' = [calls EXCEPT ![i] = [@ EXCEPT !.pc = "parsing", !.response = r]]
    /\ UNCHANGED awaited

\* fetch resolves in call i: the call records the three rate-limit headers, then
\* returns {} on a 204 or awaits the body
OverlapFetchResolves(i) ==
    /\ calls[i].pc = "fetching"
    /\ \E r \in OverlapResponses :
        /\ received' = r
        /\ rate_limit_max' = HeadersGet(r.headers, "Sortly-Rate-Limit-Max")
        /\ rate_limit_remaining' = HeadersGet(r.headers, "Sortly-Rate-Limit-Remaining")
        /\ rate_limit_reset' = HeadersGet(r.headers, "Sortly-Rate-Limit-Reset")
        /\ calls' = [calls EXCEPT ![i] =
                        IF Ok(r) /\ r.status = 204
                        THEN [@ EXCEPT !.pc = "done", !.fetched = Return(EmptyObject)]
                        ELSE [@ EXCEPT !.pc = "parsing", !.response = r]]
    /\ UNCHANGED awaited

\* fetch rejects in call i: the catch block rethrows
OverlapFetchRejects(i) ==
    /\ calls[i].pc = "fetching"
    /\ calls' = [calls EXCEPT ![i] =
                    [@ EXCEPT !.pc = "done",
                              !.fetched = Throw("FetchError", Text(<<"request failed">>),
                                                NoStatus)]]
    /\ UNCHANGED <<awaited, rate_limit, received>>

\* response.json() settles in call i: the call returns or raises, and its
\* response goes out of scope
OverlapJsonSettles(i) ==
    /\ calls[i].pc = "parsing"
    /\ \E b \in OverlapBodies :
        calls' = [calls EXCEPT ![i] =
                     [@ EXCEPT !.pc = "done",
                               !.response = NoResponse,
                               !.fetched = Classify([calls[i].response EXCEPT !.body = b])]]
    /\ UNCHANGED <<awaited, rate_limit, received>>

\* the caller of call i takes its result
OverlapResume(i) ==
    /\ calls[i].pc = "done"
    /\ calls' = [calls EXCEPT ![i] = IdleCall]
    /\ UNCHANGED <<awaited, rate_limit, received>>

OverlapNext ==
    \E i \in Slots :
        \/ OverlapDoFetch(i)
        \/ OverlapFetchResolves(i)
        \/ OverlapFetchRejects(i)
        \/ OverlapJsonSettles(i)
        \/ OverlapResume(i)

OverlapSpec == Init /\ [][OverlapNext]_vars

----------------------------------------------------------------------------
(* Properties *)

\* a response has arrived for the call in progress
Responded == response # NoResponse
\* the method of the request this call sent
SentMethod == sent[1].method
\* the rate-limit field that records a header
Field(name, max, remaining, reset) ==
    CASE name = "Sortly-Rate-Limit-Max" -> max
      [] name = "Sortly-Rate-Limit-Remaining" -> remaining
      [] OTHER -> reset

\* C1 as claimed: every 2xx response makes doFetch return, {} on a 204 and the
\* parsed body otherwise, and never raise.
C1_AsClaimed ==
    (pc = "done" /\ Responded /\ response.status \in 200..299) =>
        /\ fetched.kind = "return"
        /\ fetched.value = IF response.status = 204 THEN EmptyObject ELSE response.body

\* C1: on a 2xx response doFetch returns {} for a 204 whatever the body is, returns
\* exactly the parsed body for any other 2xx whose body is JSON, and raises the
\* parse error (not an ApiError) for any other 2xx whose body is not JSON.
C1_SuccessBranch ==
    (pc = "done" /\ Responded /\ response.status \in 200..299) =>
        IF response.status = 204
        THEN fetched.kind = "return" /\ fetched.value = EmptyObject
        ELSE IF response.body.t = "text"
        THEN fetched.kind = "throw" /\ fetched.cls \notin {"ApiError", "ApiAuthError"}
        ELSE fetched.kind = "return" /\ fetched.value = response.body

C1_Witness ==
    /\ pc = "done"
    /\ response.status = 201
    /\ response.body = Body(DataItem, Undefined)
    /\ fetched.kind = "return"
    /\ fetched.value.data = DataItem

C3_AsClaimed ==
    (pc = "done" /\ op.name = "fetchItem" /\ Responded) =>
        /\ response.status = 404 => outcome = Return(JNull)
        /\ response.status \in {400, 500} => outcome.kind = "throw"

\* C4 as claimed: doFetch raises an ApiAuthError carrying the status on a 401 and
\* on a 403, and on no other status.
C4_AsClaimed ==
    (pc = "done" /\ Responded) =>
        /\ response.status \in {401, 403} =>
              /\ fetched.kind = "throw"
              /\ fetched.cls = "ApiAuthError"
              /\ fetched.status = response.status
        /\ fetched.cls = "ApiAuthError" => response.status \in {401, 403}

\* C5 as claimed, for a 429 whose body is a JSON object: it makes doFetch raise a
\* rate-limit-exceeded error, not the generic client error, whose message contains
\* rate_limit_reset.
C5_AsClaimed ==
    (pc = "done" /\ Responded /\ response.status = 429 /\ response.body.t = "object") =>
        /\ fetched.kind = "throw"
        /\ fetched.cls = "RateLimitExceeded"
        /\ \E i \in DOMAIN fetched.message.text : fetched.message.text[i] = rate_limit_reset

\* C6 as claimed: when a response arrives each rate-limit field takes the value of
\* its header if the header is present, and keeps its value if the header is absent
\* and the field had a value.
C6_AsClaimed ==
    [][(pc = "fetching" /\ response' # NoResponse) =>
         \A name \in HeaderNames :
            LET old == Field(name, rate_limit_max, rate_limit_remaining, rate_limit_reset)
                new == Field(name, rate_limit_max', rate_limit_remaining', rate_limit_reset')
            IN  IF name \in DOMAIN response'.headers
                THEN new = response'.headers[name]
                ELSE old # Null => new = old]_vars

\* C6: once a response has arrived each rate-limit field equals the value of its
\* header in that response if the header is present, and is null if it is absent.
C6_RateLimitMirrorsResponse ==
    Responded =>
        \A name \in HeaderNames :
            Field(name, rate_limit_max, rate_limit_remaining, rate_limit_reset)
              = IF name \in DOMAIN response.headers THEN response.headers[name] ELSE Null

C6_Witness ==
    /\ pc = "parsing"
    /\ DOMAIN response.headers = {"Sortly-Rate-Limit-Max"}
    /\ rate_limit_max = "1"
    /\ rate_limit_remaining = Null
    /\ rate_limit_reset = Null

\* the operation was called without something it requires
MissingArgument(o) ==
    CASE o.name = "createItem" ->
            o.args.item.t = "undefined" \/ o.args.item.name \in {Undefined, EmptyString}
      [] o.name = "updateItem" ->
            o.args.item.t = "undefined" \/ o.args.item.id = Undefined
      [] o.name \in {"deleteItem", "fetchItem"} -> o.args.id = Undefined
      [] o.name = "moveItem" ->
            o.args.item_id = Undefined \/ o.args.quantity \in {Undefined, Null}
      [] OTHER -> FALSE

\* C7: an operation called without something it requires raises an ApiError, has
\* sent no request and has left the rate-limit fields as they were.
C7_LocalValidation ==
    [][(pc = "idle" /\ pc' # "idle" /\ MissingArgument(op')) =>
          /\ pc' = "done"
          /\ outcome'.kind = "throw"
          /\ outcome'.cls = "ApiError"
          /\ sent' = <<>>
          /\ response' = NoResponse
          /\ rate_limit' = rate_limit]_vars

C7_Witness ==
    /\ pc = "done"
    /\ op.name = "moveItem"
    /\ op.args.item_id \in Ids
    /\ op.args.quantity = Null
    /\ outcome.cls = "ApiError"
    /\ sent = <<>>
    /\ rate_limit_remaining = "0"

\* C8: moveItem with an item id and a quantity, 0 included, sends one POST to
\* {base_url}/items/{item_id}/move whose body holds the quantity, and holds
\* folder_id exactly when one was given; on a 200 with body {data: D} it returns D.
C8_MoveItem ==
    (op.name = "moveItem" /\ op.args.item_id \in Ids /\ op.args.quantity \in Quantities) =>
        /\ Len(sent) = 1
        /\ sent[1].method = "POST"
        /\ sent[1].full_url.url = <<base_url, "/items/", op.args.item_id, "/move">>
        /\ sent[1].full_url.qstring.mark = ""
        /\ sent[1].hasBody
        /\ <<"quantity", op.args.quantity>> \in sent[1].body
        /\ \A v \in {Undefined} \cup Ids :
              <<"folder_id", v>> \in sent[1].body
                 <=> (op.args.folder_id # Undefined /\ v = op.args.folder_id)
        /\ (pc = "done" /\ Responded /\ response.status = 200
              /\ response.body.t = "object" /\ response.body.data # JUndefined)
              => outcome = Return(response.body.data)

C8_Witness ==
    /\ pc = "done"
    /\ op.name = "moveItem"
    /\ op.args.quantity = "0"
    /\ op.args.folder_id \in Ids
    /\ Len(sent) = 1
    /\ <<"quantity", "0">> \in sent[1].body
    /\ response.status = 200
    /\ outcome = Return(DataItem)

\* C9: createItem with a name sends one POST to {base_url}/items whose body is the
\* item as given; on a 2xx with body {data: D} it returns D, and on a 2xx without
\* a data member (a 204 among them) it returns null.
C9_CreateItem ==
    (op.name = "createItem" /\ op.args.item.t = "object" /\ op.args.item.name = "Widget") =>
        /\ Len(sent) = 1
        /\ sent[1].method = "POST"
        /\ sent[1].full_url.url = <<base_url, "/items">>
        /\ sent[1].full_url.qstring.mark = ""
        /\ sent[1].hasBody
        /\ \A k \in {"name", "id"} :
              op.args.item[k] # Undefined => <<k, op.args.item[k]>> \in sent[1].body
        /\ \A m \in sent[1].body : m[1] \in {"name", "id"} /\ op.args.item[m[1]] = m[2]
        /\ (pc = "done" /\ Responded /\ response.status \in 200..299) =>
              /\ (response.status # 204 /\ response.body.t = "object"
                    /\ response.body.data # JUndefined)
                    => outcome = Return(response.body.data)
              /\ (response.status = 204
                    \/ (response.body.t = "object" /\ response.body.data = JUndefined))
                    => outcome = Return(JNull)

C9_Witness ==
    /\ pc = "done"
    /\ op.name = "createItem"
    /\ response.status = 201
    /\ response.body = Body(DataItem, Undefined)
    /\ Len(sent) = 1
    /\ <<"name", "Widget">> \in sent[1].body
    /\ outcome = Return(DataItem)

\* the retries a caller of doFetch asked for
RetriesGiven ==
    IF op.name = "doFetch" /\ Truthy(op.args.options.retries)
    THEN op.args.options.retries ELSE "0"

\* C10: a call of doFetch can be made whatever the rate-limit fields hold, has sent
\* exactly one request from the moment it awaits fetch until and after it settles,
\* whatever the outcome, and leaves options.retries as initialised.
C10_OneRequestPerCall ==
    /\ pc = "idle" => ENABLED DoFetchQuery
    /\ pc \in {"fetching", "parsing"} => Len(sent) = 1 /\ options.retries = RetriesGiven
    /\ fetched # NoOutcome => Len(sent) = 1 /\ options.retries = RetriesGiven
    /\ Len(sent) <= 1

C10_Witness ==
    /\ pc = "done"
    /\ fetched.kind = "throw"
    /\ fetched.cls = "FetchError"
    /\ ~Responded
    /\ rate_limit_remaining = "0"
    /\ options.retries = "0"
    /\ Len(sent) = 1

\* the headers a caller of doFetch gave in options, if any
HeadersGiven == op.args.options.headers

\* C11 as claimed: the headers sent are exactly options.headers when the caller
\* gave some, and otherwise the three defaults with Authorization 'Bearer ' + token.
C11_AsClaimed ==
    (op.name = "doFetch" /\ Len(sent) = 1) =>
        IF HeadersGiven.t = "object"
        THEN sent[1].headers = HeadersGiven.h
        ELSE /\ DOMAIN sent[1].headers = {"Content-Type", "User-Agent", "Authorization"}
             /\ sent[1].headers["Authorization"] = <<"Bearer ", api_token>>

\* the query a caller of doFetch gave has at least one entry
HasEntry(query) ==
    query.t = "object" /\ \E k \in {"include", "page", "per_page"} : query[k] # Undefined

\* C12 as claimed: the url sent has no '?' when the query is absent or an empty
\* mapping, is url + '?' + the serialised query when the query has an entry, and
\* never ends in a bare '?'.
C12_AsClaimed ==
    (op.name = "doFetch" /\ Len(sent) = 1) =>
        /\ sent[1].full_url.url = <<base_url, "/items">>
        /\ ~HasEntry(op.args.query) => sent[1].full_url.qstring.mark = ""
        /\ HasEntry(op.args.query) =>
              /\ sent[1].full_url.qstring.mark = "?"
              /\ sent[1].full_url.qstring.params # <<>>
        /\ ~(sent[1].full_url.qstring.mark = "?" /\ sent[1].full_url.qstring.params = <<>>)

\* C13 as claimed (under SortlySpec): every response with a status in 400..599
\* makes the call of src/sortly.js raise, and the decoded error body is never
\* handed back as a result.
C13_AsClaimed ==
    (pc = "done" /\ Responded /\ response.status \in 400..599) =>
        /\ fetched.kind = "throw"
        /\ outcome.kind = "throw"

\* C14 as claimed: a 401, a 403 or a 5xx whose body is not JSON still makes doFetch
\* raise the typed error of the status: ApiAuthError for 401 and 403, ApiError
\* carrying the status for 5xx.
C14_AsClaimed ==
    (pc = "done" /\ Responded /\ response.body.t = "text") =>
        /\ response.status \in {401, 403} =>
              fetched.kind = "throw" /\ fetched.cls = "ApiAuthError"
        /\ response.status \in 500..599 =>
              /\ fetched.kind = "throw"
              /\ fetched.cls = "ApiError"
              /\ fetched.status = response.status

\* C15 as claimed, for a body that is a JSON object: a 4xx other than 401 and 403
\* makes doFetch raise an ApiError with the status, whose message is the message
\* member of the body if it has one, and is not empty if the body has members.
C15_AsClaimed ==
    (pc = "done" /\ Responded /\ response.status \in (400..499) \ {401, 403}
       /\ response.body.t = "object") =>
        /\ fetched.kind = "throw"
        /\ fetched.cls = "ApiError"
        /\ fetched.status = response.status
        /\ response.body.message # Undefined =>
              fetched.message = Text(<<response.body.message>>)
        /\ response.body # EmptyObject => fetched.message # Text(<<>>)

\* C16 as claimed: a response whose status is outside 2xx, 4xx and 5xx makes
\* doFetch raise, and its body is never handed back as a result.
C16_AsClaimed ==
    (pc = "done" /\ Responded
       /\ response.status \notin (200..299) \cup (400..599)) =>
        fetched.kind = "throw"

\* the error fetch rejects with, as the model names it
TransportError == Throw("FetchError", Text(<<"request failed">>), NoStatus)

\* C18: when fetch fails before any response arrives, the call raises the
\* transport error itself, reads no body (the call goes from the pending request
\* straight to its end with no response), returns no value, and leaves the three
\* rate-limit fields as they were.
C18_TransportFailure ==
    [][(pc = "fetching" /\ pc' = "done" /\ response' = NoResponse) =>
          /\ fetched' = TransportError
          /\ outcome'.kind = "throw"
          /\ outcome'.cls = "FetchError"
          /\ outcome'.message = Text(<<"request failed">>)
          /\ Len(sent') = 1
          /\ rate_limit_max' = rate_limit_max
          /\ rate_limit_remaining' = rate_limit_remaining
          /\ rate_limit_reset' = rate_limit_reset]_vars

\* C18 witness: a call failed in transport on a connector that holds rate-limit
\* values of an earlier response
C18_Witness ==
    /\ pc = "done"
    /\ ~Responded
    /\ fetched = TransportError
    /\ outcome.kind = "throw"
    /\ rate_limit_max = "1"
    /\ rate_limit_remaining = "0"
    /\ rate_limit_reset = Null

\* C19 as claimed: listCustomAttributes sends a GET to /custom_fields whose query
\* holds per_page exactly when per_page was given and page exactly when page was
\* given, and no query when neither was given.
C19_AsClaimed ==
    (op.name = "listCustomAttributes" /\ Len(sent) = 1) =>
        /\ sent[1].method = "GET"
        /\ sent[1].full_url.url = <<base_url, "/custom_fields">>
        /\ Truthy(op.args.per_page) =>
              <<"per_page", op.args.per_page>> \in
                  {sent[1].full_url.qstring.params[i] :
                      i \in DOMAIN sent[1].full_url.qstring.params}
        /\ Truthy(op.args.page) =>
              <<"page", op.args.page>> \in
                  {sent[1].full_url.qstring.params[i] :
                      i \in DOMAIN sent[1].full_url.qstring.params}
        /\ (~Truthy(op.args.per_page) /\ ~Truthy(op.args.page)) =>
              sent[1].full_url.qstring = [mark |-> "", params |-> <<>>]

\* C17: with doFetch calls overlapping on one connector, in every state the three
\* rate-limit fields are those of one response, the one fetch delivered last to any
\* call: each field is that response's header, or null where it has none; before
\* any response they are the nulls of the constructor.
C17_LastWriterWins ==
    \A name \in HeaderNames :
        Field(name, rate_limit_max, rate_limit_remaining, rate_limit_reset)
          = IF received # NoResponse /\ name \in DOMAIN received.headers
            THEN received.headers[name]
            ELSE Null

\* C17 witness: two calls hold a response each; the one that arrived last carries
\* one header where the earlier one carried three, and the fields are the later one's
C17_Witness ==
    /\ calls[1].pc = "parsing"
    /\ calls[2].pc = "parsing"
    /\ DOMAIN calls[1].response.headers = HeaderNames
    /\ DOMAIN calls[2].response.headers = {"Sortly-Rate-Limit-Max"}
    /\ calls[1].response.headers["Sortly-Rate-Limit-Max"]
         # calls[2].response.headers["Sortly-Rate-Limit-Max"]
    /\ received = calls[2].response
    /\ rate_limit_max = calls[2].response.headers["Sortly-Rate-Limit-Max"]
    /\ rate_limit_remaining = Null
    /\ rate_limit_reset = Null

====
